---- MODULE Spec2Model ----
(***************************************************************************)
(* Model of virtual-kubelet-apptainer: the provider factory of run()       *)
(* (cmd/virtual-kubelet/main.go), the construction and node configuration  *)
(* of ApptainerProvider, and the pod lifecycle methods of the provider as  *)
(* the pod controller calls them.                                          *)
(***************************************************************************)
EXTENDS Integers, Sequences, FiniteSets, TLC

(* ------------------------------ bounds --------------------------------- *)
\* longest KUBELET_PORT value explored
MaxPortLen == 2
\* number of provider calls recorded in one behaviour
MaxCalls == 3

(* ----------------------------- constants ------------------------------- *)
\* main.go: listenPort = 10250
DefaultListenPort == 10250
\* largest value of the int32 that int32(listenPort) converts to
MaxInt32 == 2147483647

Nil == "nil"
\* a nil *ApptainerProvider
NilProvider == [nil |-> TRUE]
\* the error value strconv.Atoi returns for a string that is no integer
ErrSyntax == "strconv.Atoi: invalid syntax"

\* pod identities the pod controller hands to the provider
Pods == {"a", "b"}

\* characters a KUBELET_PORT value is built from: a digit, a sign, a letter
PortChars == {"1", "-", "x"}
Digits == {"0", "1", "2", "3", "4", "5", "6", "7", "8", "9"}

RECURSIVE SeqsUpTo(_, _)
SeqsUpTo(S, n) ==
    IF n = 0 THEN {<<>>}
    ELSE LET shorter == SeqsUpTo(S, n - 1)
         IN  shorter \cup {Append(s, c) : s \in {t \in shorter : Len(t) = n - 1}, c \in S}

\* the quota variables as deployments set them: none of them, or all of
\* them ("" is unset or empty)
QuotaProfiles ==
    { [cpu |-> "",  memory |-> "",     pods |-> "",   gpu |-> ""],
      [cpu |-> "8", memory |-> "16Gi", pods |-> "10", gpu |-> "2"] }

\* the environments the process may be started in; <<>> is "unset or empty"
Environments ==
    { [KUBELET_PORT           |-> port,
       APPTAINER_QUOTA_CPU    |-> quota.cpu,
       APPTAINER_QUOTA_MEMORY |-> quota.memory,
       APPTAINER_QUOTA_POD    |-> quota.pods,
       APPTAINER_QUOTA_GPU    |-> quota.gpu,
       VKUBELET_POD_IP        |-> "10.0.0.1"] :
         port \in SeqsUpTo(PortChars, MaxPortLen), quota \in QuotaProfiles }

(* ------------------------------ strconv -------------------------------- *)
DigitValue(c) ==
    CASE c = "0" -> 0 [] c = "1" -> 1 [] c = "2" -> 2 [] c = "3" -> 3
      [] c = "4" -> 4 [] c = "5" -> 5 [] c = "6" -> 6 [] c = "7" -> 7
      [] c = "8" -> 8 [] c = "9" -> 9

RECURSIVE DecimalValue(_)
DecimalValue(s) ==
    IF s = <<>> THEN 0
    ELSE 10 * DecimalValue(SubSeq(s, 1, Len(s) - 1)) + DigitValue(s[Len(s)])

\* strconv.Atoi: an optional sign followed by at least one decimal digit;
\* anything else yields 0 and a syntax error
Atoi(s) ==
    LET signed == s # <<>> /\ s[1] \in {"+", "-"}
        body   == IF signed THEN Tail(s) ELSE s
    IN  IF body # <<>> /\ \A i \in 1..Len(body) : body[i] \in Digits
        THEN [val |-> IF signed /\ s[1] = "-" THEN 0 - DecimalValue(body)
                      ELSE DecimalValue(body),
              err |-> Nil]
        ELSE [val |-> 0, err |-> ErrSyntax]

\* Go's int32(n) conversion of an int: the value itself inside the int32
\* range, wrapped around by 2^32 outside it
Int32(n) ==
    IF n > MaxInt32 THEN (n - MaxInt32 - 1) - MaxInt32 - 1
    ELSE IF n < (0 - MaxInt32) - 1 THEN (n + MaxInt32 + 1) + MaxInt32 + 1
    ELSE n

(* ------------------------- process configuration ----------------------- *)
\* main.go: nodeName = "vk-apptainer", operatingSystem = "Linux"
nodeName == "vk-apptainer"
operatingSystem == "Linux"
gpuResourceName == "nvidia.com/gpu"

\* strings.ToLower on the operating systems the --os flag documents
ToLower(s) ==
    CASE s = "Linux" -> "linux" [] s = "Windows" -> "windows" [] OTHER -> s

\* m[k] = v on a Go map
Put(m, k, v) == [x \in DOMAIN m \cup {k} |-> IF x = k THEN v ELSE m[x]]

VARIABLES
    env,         \* the process environment (os.Getenv)
    pc,          \* position of run()'s provider factory / the running node
    listenPort,  \* main.go's package variable listenPort
    p,           \* the *ApptainerProvider the factory holds (NilProvider: a nil pointer)
    err,         \* the error the factory holds
    node,        \* cfg.Node, the node object handed to ConfigureNode
    calls,       \* CreatePod/UpdatePod/DeletePod calls made so far, with what they returned
    query,       \* the latest GetPod/GetPodStatus/GetPods call and what it returned
    notified     \* pods for which the provider has invoked the NotifyPods callback

vars == <<env, pc, listenPort, p, err, node, calls, query, notified>>

(* ------------------------------ provider ------------------------------- *)
\* the zero value &ApptainerProvider{}
ApptainerProvider ==
    [nodeName |-> "", operatingSystem |-> "", cpu |-> "", memory |-> "",
     pods |-> "", gpu |-> "", internalIP |-> "", daemonEndpointPort |-> 0,
     ApptaienrMetricsProvider |-> Nil]

\* metrics.NewApptaienrMetricsProver: a pointer to an empty struct
NewApptaienrMetricsProver == "ApptaienrMetricsProvider{}"

\* setupNodeCapacity as it would be if it refused an environment that sets no
\* CPU quota instead of falling back to the default
setupNodeCapacityRequiringQuota(q, e) ==
    IF e.APPTAINER_QUOTA_CPU = ""
    THEN [p |-> q, err |-> "APPTAINER_QUOTA_CPU is not set"]
    ELSE [p |-> [q EXCEPT !.cpu = e.APPTAINER_QUOTA_CPU], err |-> Nil]

\* setupNodeCapacity: defaults, each overridden by a non-empty quota variable
setupNodeCapacity(q, e) ==
    [p   |-> [q EXCEPT
                !.cpu    = IF e.APPTAINER_QUOTA_CPU # "" THEN e.APPTAINER_QUOTA_CPU ELSE "64",
                !.memory = IF e.APPTAINER_QUOTA_MEMORY # "" THEN e.APPTAINER_QUOTA_MEMORY ELSE "512Gi",
                !.pods   = IF e.APPTAINER_QUOTA_POD # "" THEN e.APPTAINER_QUOTA_POD ELSE "640",
                !.gpu    = IF e.APPTAINER_QUOTA_GPU # "" THEN e.APPTAINER_QUOTA_GPU ELSE q.gpu],
     err |-> Nil]

NewApptainerProvider(e, name, os, ip, port) ==
    LET q0 == [ApptainerProvider EXCEPT !.nodeName = name, !.operatingSystem = os,
                                        !.internalIP = ip, !.daemonEndpointPort = port]
        r  == setupNodeCapacity(q0, e)
    IN  IF r.err # Nil
        THEN [p |-> NilProvider, err |-> r.err]
        ELSE [p |-> [r.p EXCEPT !.ApptaienrMetricsProvider = NewApptaienrMetricsProver],
              err |-> Nil]

\* capacity: the quantities parsed from the provider's strings (every value
\* of Environments is a parseable quantity, so MustParse does not panic)
capacity(q) ==
    LET base == [cpu |-> q.cpu, memory |-> q.memory, pods |-> q.pods]
    IN  IF q.gpu # "" THEN Put(base, gpuResourceName, q.gpu) ELSE base

nodeConditions ==
    << [Type |-> "Ready",              Status |-> "True",  Reason |-> "KubeletReady"],
       [Type |-> "OutOfDisk",          Status |-> "False", Reason |-> "KubeletHasSufficientDisk"],
       [Type |-> "MemoryPressure",     Status |-> "False", Reason |-> "KubeletHasSufficientMemory"],
       [Type |-> "DiskPressure",       Status |-> "False", Reason |-> "KubeletHasNoDiskPressure"],
       [Type |-> "NetworkUnavailable", Status |-> "False", Reason |-> "RouteCreated"] >>

nodeAddresses(q) == << [Type |-> "InternalIP", Address |-> q.internalIP] >>

nodeDaemonEndpoints(q) == [KubeletEndpoint |-> [Port |-> q.daemonEndpointPort]]

ConfigureNode(q, n) ==
    LET lower == ToLower(q.operatingSystem)
        l1 == Put(n.Labels, "alpha.service-controller.kubernetes.io/exclude-balancer", "true")
        l2 == Put(l1, "node.kubernetes.io/exclude-from-external-load-balancers", "true")
        l3 == Put(l2, "beta.kubernetes.io/os", lower)
        l4 == Put(l3, "kubernetes.io/os", lower)
    IN  [Capacity        |-> capacity(q),
         Allocatable     |-> capacity(q),
         Conditions      |-> nodeConditions,
         Addresses       |-> nodeAddresses(q),
         DaemonEndpoints |-> nodeDaemonEndpoints(q),
         OperatingSystem |-> q.operatingSystem,
         Labels          |-> l4]

(* --------------------------- pod lifecycle API -------------------------- *)
\* each method: the provider after the call, and the values returned
CreatePod(q, pod) == [p |-> q, err |-> Nil]

UpdatePod(q, pod) == [p |-> q, err |-> Nil]

\* DeletePod as it would be if a pod the provider holds no record of were
\* reported as an error
DeletePodNotFound(q, pod) == [p |-> q, err |-> "NotFound"]

DeletePod(q, pod) == [p |-> q, err |-> Nil]

\* GetPod as it would be if a pod the provider holds no record of were
\* reported as an error
GetPodNotFound(q, pod) == [res |-> Nil, err |-> "NotFound"]

GetPod(q, pod) == [res |-> Nil, err |-> Nil]

GetPodStatus(q, pod) == [res |-> Nil, err |-> Nil]

GetPods(q) == [res |-> Nil, err |-> Nil]

(* -------------------------------- Init --------------------------------- *)
Init ==
    /\ env \in Environments
    /\ pc = "factory"
    /\ listenPort = DefaultListenPort
    /\ p = NilProvider
    /\ err = Nil
    /\ node = [Capacity |-> Nil, Allocatable |-> Nil, Conditions |-> <<>>,
               Addresses |-> <<>>, DaemonEndpoints |-> Nil, OperatingSystem |-> "",
               Labels |-> [k \in {"type"} |-> "virtual-kubelet"]]
    /\ calls = <<>>
    /\ query = [op |-> "none", pod |-> "none", res |-> Nil, err |-> Nil, at |-> 0]
    /\ notified = {}

(* ------------------------- run(): provider factory --------------------- *)
\* main.go 113-119: KUBELET_PORT, when set, replaces listenPort
FactoryParsePort ==
    /\ pc = "factory"
    /\ IF env.KUBELET_PORT # <<>>
       THEN LET r == Atoi(env.KUBELET_PORT)
            IN  /\ listenPort' = r.val
                /\ err' = r.err
                /\ pc' = IF r.err # Nil THEN "failed" ELSE "NewApptainerProvider"
       ELSE /\ pc' = "NewApptainerProvider"
            /\ UNCHANGED <<listenPort, err>>
    /\ UNCHANGED <<env, p, node, calls, query, notified>>

\* main.go 121
FactoryNewProvider ==
    /\ pc = "NewApptainerProvider"
    /\ LET r == NewApptainerProvider(env, nodeName, operatingSystem,
                                     env.VKUBELET_POD_IP, Int32(listenPort))
       IN  /\ p' = r.p
           /\ err' = r.err
    /\ pc' = "ConfigureNode"
    /\ UNCHANGED <<env, listenPort, node, calls, query, notified>>

\* main.go 122: the call is made before err is looked at; a nil receiver
\* is dereferenced by capacity() and the process panics
FactoryConfigureNode ==
    /\ pc = "ConfigureNode"
    /\ IF p = NilProvider
       THEN /\ pc' = "panic"
            /\ UNCHANGED node
       ELSE /\ node' = ConfigureNode(p, node)
            /\ pc' = "return"
    /\ UNCHANGED <<env, listenPort, p, err, calls, query, notified>>

\* main.go 123 and 174-176: the factory's error ends run()
FactoryReturn ==
    /\ pc = "return"
    /\ pc' = IF err # Nil THEN "failed" ELSE "serving"
    /\ UNCHANGED <<env, listenPort, p, err, node, calls, query, notified>>

(* ------------------- the pod controller calls the provider ------------- *)
Logged(op, pod, r) == Append(calls, [op |-> op, pod |-> pod, err |-> r.err])

Answered(op, pod, r) ==
    [op |-> op, pod |-> pod, res |-> r.res, err |-> r.err, at |-> Len(calls)]

CallCreatePod ==
    /\ pc = "serving"
    /\ Len(calls) < MaxCalls
    /\ \E pod \in Pods :
          LET r == CreatePod(p, pod)
          IN  /\ p' = r.p
              /\ calls' = Logged("CreatePod", pod, r)
    /\ UNCHANGED <<env, pc, listenPort, err, node, query, notified>>

CallUpdatePod ==
    /\ pc = "serving"
    /\ Len(calls) < MaxCalls
    /\ \E pod \in Pods :
          LET r == UpdatePod(p, pod)
          IN  /\ p' = r.p
              /\ calls' = Logged("UpdatePod", pod, r)
    /\ UNCHANGED <<env, pc, listenPort, err, node, query, notified>>

CallDeletePod ==
    /\ pc = "serving"
    /\ Len(calls) < MaxCalls
    /\ \E pod \in Pods :
          LET r == DeletePod(p, pod)
          IN  /\ p' = r.p
              /\ calls' = Logged("DeletePod", pod, r)
    /\ UNCHANGED <<env, pc, listenPort, err, node, query, notified>>

CallGetPod ==
    /\ pc = "serving"
    /\ \E pod \in Pods : query' = Answered("GetPod", pod, GetPod(p, pod))
    /\ UNCHANGED <<env, pc, listenPort, p, err, node, calls, notified>>

CallGetPodStatus ==
    /\ pc = "serving"
    /\ \E pod \in Pods : query' = Answered("GetPodStatus", pod, GetPodStatus(p, pod))
    /\ UNCHANGED <<env, pc, listenPort, p, err, node, calls, notified>>

CallGetPods ==
    /\ pc = "serving"
    /\ query' = Answered("GetPods", "none", GetPods(p))
    /\ UNCHANGED <<env, pc, listenPort, p, err, node, calls, notified>>

Next ==
    \/ FactoryParsePort
    \/ FactoryNewProvider
    \/ FactoryConfigureNode
    \/ FactoryReturn
    \/ CallCreatePod
    \/ CallUpdatePod
    \/ CallDeletePod
    \/ CallGetPod
    \/ CallGetPodStatus
    \/ CallGetPods

Spec == Init /\ [][Next]_vars

\* the process keeps running, and the pod controller keeps querying the
\* provider for every pod (its resync loop): no enabled step and no query of
\* a pod is postponed forever
FairSpec ==
    /\ Spec
    /\ WF_vars(Next)
    /\ \A pod \in Pods : WF_vars(CallGetPod /\ query'.pod = pod)
    /\ \A pod \in Pods : WF_vars(CallGetPodStatus /\ query'.pod = pod)
    /\ WF_vars(CallGetPods)

(* ------------------------- history of the calls ------------------------ *)
Last(log) == log[Len(log)]

Before(i) == SubSeq(calls, 1, i - 1)

\* the controller has handed pod to the provider (a CreatePod that returned
\* nil) and has not asked for its deletion since
Tracked(log, pod) ==
    \E i \in 1..Len(log) :
        /\ log[i].op = "CreatePod" /\ log[i].pod = pod /\ log[i].err = Nil
        /\ \A j \in (i + 1)..Len(log) : ~(log[j].op = "DeletePod" /\ log[j].pod = pod)

\* DeletePod has been called for pod while the controller had it handed over
DeleteCalled(pod) ==
    \E i \in 1..Len(calls) :
        /\ calls[i].op = "DeletePod" /\ calls[i].pod = pod
        /\ Tracked(Before(i), pod)

\* KUBELET_PORT is set and is not an integer
PortInvalid == env.KUBELET_PORT # <<>> /\ Atoi(env.KUBELET_PORT).err # Nil

TypeOK ==
    /\ env \in Environments
    /\ pc \in {"factory", "NewApptainerProvider", "ConfigureNode", "return",
               "serving", "failed", "panic"}
    /\ listenPort \in Int
    /\ Len(calls) <= MaxCalls


(* -------------------------------- claims ------------------------------- *)
\* C1: a CreatePod for a pod that was already handed over and not deleted
\* is rejected with a Conflict error.
C1_DuplicateCreateRejected ==
    \A i \in 1..Len(calls) :
        (calls[i].op = "CreatePod" /\ Tracked(Before(i), calls[i].pod))
            => calls[i].err = "Conflict"

\* C2: a DeletePod for a pod the provider holds nothing of (never created, or
\* already deleted by an earlier DeletePod) returns nil and changes neither
\* the provider, nor what queries answered, nor the notifications sent.
C2_DeleteIdempotent ==
    [][(/\ Len(calls') = Len(calls) + 1
        /\ Last(calls').op = "DeletePod"
        /\ ~Tracked(calls, Last(calls').pod))
          => (/\ Last(calls').err = Nil
              /\ p' = p
              /\ query' = query
              /\ notified' = notified)]_vars

\* a pod was created, deleted, and deleted again straight away; both deletes
\* returned nil
C2_SecondDeleteSucceeded ==
    \E i \in 1..Len(calls) :
        /\ i + 2 <= Len(calls)
        /\ calls[i] = [op |-> "CreatePod", pod |-> "a", err |-> Nil]
        /\ calls[i + 1] = [op |-> "DeletePod", pod |-> "a", err |-> Nil]
        /\ calls[i + 2] = [op |-> "DeletePod", pod |-> "a", err |-> Nil]

\* C3: once DeletePod was called for a pod handed to the provider, the
\* provider eventually invokes the notification callback for that pod.
C3_DeleteEventuallyNotified ==
    \A pod \in Pods : DeleteCalled(pod) ~> (pod \in notified)

\* C4: after an accepted CreatePod("a") with no DeletePod issued,
\* GetPodStatus("a") eventually reports Running.
C4_CreatedEventuallyRunning ==
    Tracked(calls, "a") ~>
        (\/ ~Tracked(calls, "a")
         \/ (query.op = "GetPodStatus" /\ query.pod = "a" /\ query.res = "Running"))

\* C5: in a sequence Create, Delete, Create on one pod the second Create
\* succeeds only once the termination of the first has been reached (and so
\* reported).
C5_RecreateOnlyAfterTerminated ==
    \A i, j, k \in 1..Len(calls) :
        (/\ i < j /\ j < k
         /\ calls[i].op = "CreatePod" /\ calls[i].err = Nil
         /\ calls[j].op = "DeletePod" /\ calls[j].pod = calls[i].pod
         /\ calls[k].op = "CreatePod" /\ calls[k].pod = calls[i].pod
         /\ calls[k].err = Nil)
            => calls[i].pod \in notified

C10_ConfigureNodeOnNonNilProvider ==
    /\ pc = "ConfigureNode" => (p # NilProvider /\ err = Nil)
    /\ pc # "panic"
    /\ PortInvalid => (/\ p = NilProvider
                       /\ pc \in {"factory", "failed"}
                       /\ pc = "failed" => err = ErrSyntax)

\* the factory parsed a KUBELET_PORT, built the provider with that port and
\* is about to configure the node
C10_AboutToConfigureNode ==
    /\ pc = "ConfigureNode"
    /\ env.KUBELET_PORT = <<"1", "1">>
    /\ p # NilProvider
    /\ p.daemonEndpointPort = 11
    /\ p.cpu = "64"

====
